---- MODULE Spec2Model ----
(***************************************************************************)
(* Shellington: the command Executor (core/shell/executor.ts) and the      *)
(* remote Gateway with its session registry (core/api/server.ts).          *)
(*                                                                         *)
(* The Gateway is single-threaded: every event handler runs to its next    *)
(* await without interleaving, so each action below is one such segment.   *)
(* Time is counted in days (the token lifetime '24h' is one unit).         *)
(***************************************************************************)
EXTENDS Integers, Sequences, FiniteSets, TLC

\* ---------------------------------------------------------------- bounds
MaxConn == 2
MaxSpawn == 2
MaxTime == 1
MaxDepth == 2
MaxEvents == 3
MaxWrite == 2

\* ------------------------------------------------------ program constants
ExpiresIn == 1

\* ------------------------------------------------------------ value sets
Sockets == 1..MaxConn
Unset == "<unset>"
EnvKeys == {"X"}
EnvValues == {"1"}
PermissionSets == {{"history"}, {"*"}, {"execute", "history", "ai"}}
UserIds == {"user-1"}

\* Directories of the host that exist; the server is started in StartDir.
StartDir == <<"home">>
ExistingDirs == {<< >>, <<"home">>, <<"home", "sub">>}
\* The variable index.ts uses to recognise a Shellington that is already
\* running, and the environment of the shell that launches the program.
ActiveKey == "SHELLINGTON_ACTIVE"
HostEnv == [k \in EnvKeys \cup {ActiveKey} |-> Unset]

\* The start of the program: with SHELLINGTON_ACTIVE equal to 'true' it
\* prints a warning and exits with status 1, otherwise it sets the variable
\* in its own process environment and goes on.
Startup(env) ==
  IF env[ActiveKey] = "true"
  THEN [exited |-> TRUE, code |-> 1, env |-> env]
  ELSE [exited |-> FALSE, code |-> 0,
        env |-> [env EXCEPT ![ActiveKey] = "true"]]

\* The process environment of the running server.
StartEnv == Startup(HostEnv).env

\* Path arguments: absolute or relative, as a list of segments.
NoPath == [abs |-> FALSE, segs |-> << >>]
RelSub == [abs |-> FALSE, segs |-> <<"sub">>]
RelNope == [abs |-> FALSE, segs |-> <<"nope">>]
RelUp == [abs |-> FALSE, segs |-> <<"..">>]
AbsHome == [abs |-> TRUE, segs |-> <<"home">>]
PathInputs == {RelSub, RelNope, AbsHome}
LocalPaths == PathInputs \cup {RelUp}

\* Command strings.  CmdHuge stands for a command string longer than the
\* operating system accepts as one argument (spawn fails with E2BIG).
CmdEcho == "echo $X"
CmdPwd == "pwd"
CmdHuge == "<longer than the argument limit>"
CmdHang == "sleep infinity"
CmdShellington == "shellington"
Commands == {CmdEcho, CmdPwd, CmdHuge}
CommandIds == {"corr-1", "corr-2"}
NoOverlay == [k \in {} |-> Unset]
Overlays == {NoOverlay} \cup [EnvKeys -> EnvValues]

\* RemoteCommand messages a client can send with the execute event.
RemoteCommands ==
  [id : CommandIds, command : Commands,
   workingDirectory : {NoPath, RelNope}, environment : Overlays]

\* RemoteCommand messages that name a working directory that exists.
DirCommands ==
  [id : {"corr-1"}, command : {CmdEcho, CmdPwd},
   workingDirectory : {NoPath, RelSub, RelUp}, environment : Overlays]

\* RemoteCommand messages that start the program again inside a session,
\* with or without an overlay for SHELLINGTON_ACTIVE.
GuardCommands ==
  [id : {"corr-1"}, command : {CmdShellington}, workingDirectory : {NoPath},
   environment : {NoOverlay, [k \in {ActiveKey} |-> "false"]}]

\* Tokens a client can present in the handshake.
NoToken == [sig |-> "none", exp |-> 0, userId |-> "", permissions |-> {}]
Tokens ==
  [sig : {"good", "bad"}, exp : {0, ExpiresIn},
   userId : UserIds, permissions : PermissionSets] \cup {NoToken}

VARIABLES
  now,             \* the clock, in days
  procCwd,         \* process.cwd() of the server process
  procEnv,         \* process.env of the server process
  heap,            \* the CommandExecutor objects, by allocation order
  socket,          \* per socket: connection state and socket.data
  activeSessions,  \* APIServer.activeSessions: socket id -> session
  spawned,         \* number of child processes started so far (next pid)
  calls,           \* execute handlers suspended at an await, one per child
  history,         \* rows of the History Store, oldest first
  received,        \* number of client events the Gateway has handled
  sent,            \* what the last step sent to a client, if anything
  asks,            \* ai handlers suspended at the await of the Assistant
  run,             \* one execute call of a local front end, event by event
  repl,            \* a line-oriented front end (SimpleREPL or EnhancedREPL)
  tui,             \* the full-screen TUI: isProcessing and its handler
  stats            \* one getStatistics call, query by query

vars == <<now, procCwd, procEnv, heap, socket, activeSessions, spawned,
          calls, history, received, sent, asks, run, repl, tui, stats>>
frontEnds == <<repl, tui, stats>>

\* ------------------------------------------------------------- Executor
\* path.resolve(from, to): lexical; "." and ".." are folded.
RECURSIVE Normalize(_, _)
Normalize(acc, segs) ==
  IF segs = << >> THEN acc
  ELSE LET s == Head(segs) IN
       IF s = "." THEN Normalize(acc, Tail(segs))
       ELSE IF s = ".."
            THEN Normalize(IF acc = << >> THEN acc
                           ELSE SubSeq(acc, 1, Len(acc) - 1), Tail(segs))
            ELSE Normalize(Append(acc, s), Tail(segs))

Resolve(from, to) ==
  IF to.abs THEN Normalize(<< >>, to.segs) ELSE Normalize(from, to.segs)

\* new CommandExecutor()
NewExecutor(pcwd, penv) == [cwd |-> pcwd, env |-> penv]

\* CommandExecutor.changeDirectory: this.cwd is assigned first, then
\* process.chdir runs and throws when the directory cannot be entered.
changeDirectoryFromStart(ex, pcwd, newPath) ==
  LET resolvedPath == Resolve(StartDir, newPath) IN
  [executor |-> [ex EXCEPT !.cwd = resolvedPath],
   procCwd |-> IF resolvedPath \in ExistingDirs THEN resolvedPath ELSE pcwd,
   threw |-> resolvedPath \notin ExistingDirs]

changeDirectory(ex, pcwd, newPath) ==
  LET resolvedPath == Resolve(ex.cwd, newPath) IN
  [executor |-> [ex EXCEPT !.cwd = resolvedPath],
   procCwd |-> IF resolvedPath \in ExistingDirs THEN resolvedPath ELSE pcwd,
   threw |-> resolvedPath \notin ExistingDirs]

\* CommandExecutor.setEnvironment
setEnvironmentProcessOnly(ex, penv, key, value) ==
  [executor |-> ex, procEnv |-> [penv EXCEPT ![key] = value]]

setEnvironment(ex, penv, key, value) ==
  [executor |-> [ex EXCEPT !.env = [ex.env EXCEPT ![key] = value]],
   procEnv |-> [penv EXCEPT ![key] = value]]

\* The options execute hands to spawn (the GHOSTTY_* variables it deletes
\* are not among EnvKeys).
SpawnOptionsShared(ex, pcwd, penv) == [cwd |-> pcwd, env |-> penv]

SpawnOptions(ex, pcwd, penv) == [cwd |-> ex.cwd, env |-> ex.env]

\* What spawn('/bin/sh', ['-c', command], options) does: it throws
\* synchronously for an argument the system refuses (E2BIG), reports a
\* missing working directory by an 'error' event, and otherwise starts
\* the child.
spawn(command, options) ==
  IF command = CmdHuge THEN "throws"
  ELSE IF options.cwd \notin ExistingDirs THEN "error"
  ELSE "running"

\* CommandExecutor.execute up to the point where it returns its promise:
\* an exception thrown inside the Promise executor rejects the promise,
\* otherwise it stays pending until the child emits 'close' or 'error'.
execute(ex, pcwd, penv, command) ==
  LET options == SpawnOptions(ex, pcwd, penv)
      child == spawn(command, options)
  IN IF child = "throws"
     THEN [state |-> "rejected", reason |-> "spawn E2BIG"]
     ELSE [state |-> "pending", child |-> child, options |-> options]

\* What the shell prints for a command, given the options it was spawned
\* with: the words of its standard output.
ShellStdout(command, options) ==
  IF command = CmdPwd THEN options.cwd
  ELSE IF command = CmdEcho /\ options.env["X"] # Unset
       THEN <<options.env["X"]>>
       ELSE << >>

\* --------------------------------------------------------------- Gateway
hasPermissionNonEmpty(permissions, required) == permissions # {}

hasPermissionNoWildcard(permissions, required) == required \in permissions

hasPermission(permissions, required) ==
  required \in permissions \/ "*" \in permissions

\* jwt.verify(token, jwtSecret) at time t: signature, then expiry.
jwtVerifyNoExpiry(token, t) == token.sig = "good"

jwtVerify(token, t) == token.sig = "good" /\ t < token.exp

\* Messages to clients.  An acknowledgement remembers the request it
\* answers (socket.io pairs the callback with the request packet).
Nothing == [socket |-> 0, kind |-> "none"]
ErrorAckSilent(c, msg) == Nothing

ErrorAck(c, msg) == [socket |-> c, kind |-> "error", error |-> msg]

\* An exception that leaves a listener, or a rejection of the promise of an
\* async listener: nothing handles either, and the server process ends.
Uncaught(c, msg) == [socket |-> c, kind |-> "uncaught", error |-> msg]
Up == sent.kind # "uncaught"

\* A promise settles once: resolve on a settled promise does nothing.
Pending == [state |-> "pending", value |-> Nothing]
resolveLastWins(promise, value) == [state |-> "resolved", value |-> value]

resolve(promise, value) ==
  IF promise.state = "pending"
  THEN [state |-> "resolved", value |-> value]
  ELSE promise

\* No execute call of the local front end has been made yet.
IdleRun == [pc |-> "idle"]

\* The front ends before they are started.
IdleRepl ==
  [kind |-> "none", currentExecution |-> "null", handlers |-> {},
   lines |-> 0, timers |-> 0, ctrlCCount |-> 0]
IdleTui ==
  [isProcessing |-> FALSE, handlers |-> {}, commandHistory |-> 0,
   output |-> "", exited |-> FALSE, enters |-> 0]
IdleStats == [pc |-> "idle", totalCommands |-> 0, successfulCommands |-> 0]

Init ==
  /\ now = 0
  /\ procCwd = StartDir
  /\ procEnv = StartEnv
  /\ heap = <<NewExecutor(StartDir, StartEnv)>>
  /\ socket = [c \in Sockets |->
                 [state |-> "new", error |-> "", userId |-> "",
                  permissions |-> {}, exp |-> 0]]
  /\ activeSessions = [c \in {} |-> 0]
  /\ spawned = 0
  /\ calls = {}
  /\ history = << >>
  /\ received = 0
  /\ sent = Nothing
  /\ asks = {}
  /\ run = IdleRun
  /\ repl = IdleRepl
  /\ tui = IdleTui
  /\ stats = IdleStats

Tick ==
  /\ UNCHANGED frontEnds
  /\ Up
  /\ UNCHANGED received
  /\ now < MaxTime
  /\ now' = now + 1
  /\ sent' = Nothing
  /\ UNCHANGED <<procCwd, procEnv, heap, socket, activeSessions, spawned,
                 calls, history>>
  /\ UNCHANGED <<asks, run>>

\* activeSessions.set(socket.id, { executor: sessionExecutor, userId }):
\* the entry refers to the Executor the connection handler has just made.
\* (Index 1 of the heap is the Executor the APIServer constructor made.)
NewSessionShared(sessionExecutor, userId) ==
  [executor |-> 1, userId |-> userId]

NewSession(sessionExecutor, userId) ==
  [executor |-> sessionExecutor, userId |-> userId]

\* A handshake: the authentication middleware (io.use), and for an
\* accepted socket the 'connection' handler.  Sockets are numbered in the
\* order of their handshakes.
Connect(c, token) ==
  /\ UNCHANGED frontEnds
  /\ Up
  /\ received < MaxEvents
  /\ received' = received + 1
  /\ socket[c].state = "new"
  /\ \A d \in Sockets : d < c => socket[d].state # "new"
  /\ IF token = NoToken \/ ~jwtVerify(token, now)
     THEN /\ socket' = [socket EXCEPT ![c].state = "rejected",
                           ![c].error = IF token = NoToken
                                        THEN "Authentication required"
                                        ELSE "Invalid token"]
          /\ UNCHANGED <<heap, activeSessions>>
     ELSE /\ socket' = [socket EXCEPT ![c] =
                          [state |-> "connected", error |-> "",
                           userId |-> token.userId,
                           permissions |-> token.permissions,
                           exp |-> token.exp]]
          /\ heap' = Append(heap, NewExecutor(procCwd, procEnv))
          /\ activeSessions' =
               [d \in DOMAIN activeSessions \cup {c} |->
                  IF d = c THEN NewSession(Len(heap) + 1, token.userId)
                  ELSE activeSessions[d]]
  /\ sent' = Nothing
  /\ UNCHANGED <<now, procCwd, procEnv, spawned, calls, history>>
  /\ UNCHANGED <<asks, run>>

\* activeSessions.delete(socket.id)
DeleteSessionForgets(sessions, c) == sessions

DeleteSession(sessions, c) ==
  [d \in DOMAIN sessions \ {c} |-> sessions[d]]

\* What the disconnect listener does to the registry and to the execute
\* handlers of the connection that are in flight: it deletes the entry and
\* touches no child process.
DisconnectHandlerKills(sessions, inFlight, c) ==
  [activeSessions |-> DeleteSession(sessions, c),
   calls |-> {call \in inFlight : call.socket # c}]

DisconnectHandler(sessions, inFlight, c) ==
  [activeSessions |-> DeleteSession(sessions, c), calls |-> inFlight]

\* socket.on('disconnect')
Disconnect(c) ==
  /\ UNCHANGED frontEnds
  /\ Up
  /\ received < MaxEvents
  /\ received' = received + 1
  /\ socket[c].state = "connected"
  /\ socket' = [socket EXCEPT ![c].state = "disconnected"]
  /\ activeSessions' = DisconnectHandler(activeSessions, calls, c).activeSessions
  /\ calls' = DisconnectHandler(activeSessions, calls, c).calls
  /\ sent' = Nothing
  /\ UNCHANGED <<now, procCwd, procEnv, heap, spawned, history>>
  /\ UNCHANGED <<asks, run>>

\* The try block of the execute handler up to the await: the optional
\* directory change, the environment overlay (Object.entries(...).forEach).
ApplyEnvironmentSkipped(ex, penv, overlay, keys) ==
  [executor |-> ex, procEnv |-> penv]

RECURSIVE ApplyEnvironment(_, _, _, _)
ApplyEnvironment(ex, penv, overlay, keys) ==
  IF keys = {} THEN [executor |-> ex, procEnv |-> penv]
  ELSE LET k == CHOOSE x \in keys : TRUE
           r == setEnvironment(ex, penv, k, overlay[k])
       IN ApplyEnvironment(r.executor, r.procEnv, overlay, keys \ {k})

\* The code argument of the 'close' event: a number, or null when the
\* child was terminated by a signal.
Null == << >>
Num(n) == <<n>>

\* code || 0
OrZeroAlways(code) == 0

OrZero(code) == IF code = Null \/ code[1] = 0 THEN 0 ELSE code[1]

\* The CommandResult execute resolves with on 'close' (code || 0) and on
\* 'error' (-1, with the error message appended to stderr after a line
\* feed); workingDirectory is read from the Executor at that time.
CloseResult(command, code, stdout, stderr, ex) ==
  [command |-> command, exitCode |-> OrZero(code), stdout |-> stdout,
   stderr |-> stderr, workingDirectory |-> ex.cwd]

ErrorResult(command, stdout, stderr, ex) ==
  [command |-> command, exitCode |-> -1, stdout |-> stdout,
   stderr |-> stderr \o <<"\n", "spawn /bin/sh ENOENT">>,
   workingDirectory |-> ex.cwd]

\* const response: RemoteCommandResult = { ...result, commandId: command.id }
RemoteCommandResultUntagged(result, command) ==
  [result |-> result, commandId |-> ""]

RemoteCommandResult(result, command) ==
  [result |-> result, commandId |-> command.id]

\* this.activeSessions.get(socket.id): the entry, or undefined.
NoSession == [executor |-> 0, userId |-> ""]
getOrAnother(sessions, c) ==
  IF c \in DOMAIN sessions THEN sessions[c]
  ELSE IF DOMAIN sessions # {}
       THEN sessions[CHOOSE d \in DOMAIN sessions : TRUE]
       ELSE NoSession

get(sessions, c) == IF c \in DOMAIN sessions THEN sessions[c] ELSE NoSession

Session(c) == get(activeSessions, c)

\* socket.on('execute'), from the event to the await of execute(): the
\* listener as it runs for whatever socket the event belongs to.
ExecuteListener(c, command) ==
  /\ UNCHANGED frontEnds
  /\ Up
  /\ received' = received + 1
  /\ IF Session(c) = NoSession
     THEN /\ sent' = ErrorAck(c, "Session not found")
          /\ UNCHANGED <<procCwd, procEnv, heap, spawned, calls>>
     ELSE IF ~hasPermission(socket[c].permissions, "execute")
     THEN /\ sent' = ErrorAck(c, "Permission denied")
          /\ UNCHANGED <<procCwd, procEnv, heap, spawned, calls>>
     ELSE
       LET e == Session(c).executor
           cd == IF command.workingDirectory # NoPath
                 THEN changeDirectory(heap[e], procCwd,
                                      command.workingDirectory)
                 ELSE [executor |-> heap[e], procCwd |-> procCwd,
                       threw |-> FALSE]
           ov == ApplyEnvironment(cd.executor, procEnv, command.environment,
                                  DOMAIN command.environment)
           promise == execute(ov.executor, cd.procCwd, ov.procEnv,
                              command.command)
       IN /\ Len(cd.executor.cwd) <= MaxDepth
          /\ IF cd.threw
             THEN /\ heap' = [heap EXCEPT ![e] = cd.executor]
                  /\ sent' = ErrorAck(c, "ENOENT: chdir")
                  /\ UNCHANGED <<procCwd, procEnv, spawned, calls>>
             ELSE /\ heap' = [heap EXCEPT ![e] = ov.executor]
                  /\ procCwd' = cd.procCwd
                  /\ procEnv' = ov.procEnv
                  /\ IF promise.state = "rejected"
                     THEN /\ sent' = ErrorAck(c, promise.reason)
                          /\ UNCHANGED <<spawned, calls>>
                     ELSE /\ spawned < MaxSpawn
                          /\ spawned' = spawned + 1
                          /\ calls' = calls \cup
                               {[pid |-> spawned + 1, socket |-> c,
                                 command |-> [id |-> command.id,
                                              command |-> command.command],
                                 executor |-> e, argv |-> command.command,
                                 options |-> promise.options,
                                 pc |-> promise.child,
                                 result |-> Nothing]}
                          /\ sent' = Nothing
  /\ UNCHANGED <<now, socket, activeSessions, history>>
  /\ UNCHANGED <<asks, run>>

\* The execute event of a connected socket.
ExecuteHandler(c, command) ==
  /\ received < MaxEvents
  /\ socket[c].state = "connected"
  /\ ExecuteListener(c, command)

\* A dispatcher that waits for its children in the order it started them.
ChildCloseInOrder(call) ==
  /\ \A other \in calls : other.pid < call.pid => other.pc # "running"
  /\ UNCHANGED frontEnds
  /\ Up
  /\ UNCHANGED received
  /\ call.pc = "running"
  /\ calls' = (calls \ {call}) \cup
       {[call EXCEPT !.pc = "saving",
           !.result = CloseResult(call.argv, Num(0),
                                  ShellStdout(call.argv, call.options),
                                  << >>, heap[call.executor])]}
  /\ sent' = Nothing
  /\ UNCHANGED <<now, procCwd, procEnv, heap, socket, activeSessions,
                 spawned, history>>
  /\ UNCHANGED <<asks, run>>

\* child.on('close'): execute resolves and the handler goes on to
\* historyManager.addEntry(result).
ChildClose(call) ==
  /\ UNCHANGED frontEnds
  /\ Up
  /\ UNCHANGED received
  /\ call.pc = "running"
  /\ calls' = (calls \ {call}) \cup
       {[call EXCEPT !.pc = "saving",
           !.result = CloseResult(call.argv, Num(0),
                                  ShellStdout(call.argv, call.options),
                                  << >>, heap[call.executor])]}
  /\ sent' = Nothing
  /\ UNCHANGED <<now, procCwd, procEnv, heap, socket, activeSessions,
                 spawned, history>>
  /\ UNCHANGED <<asks, run>>

\* child.on('error')
ChildError(call) ==
  /\ UNCHANGED frontEnds
  /\ Up
  /\ UNCHANGED received
  /\ call.pc = "error"
  /\ calls' = (calls \ {call}) \cup
       {[call EXCEPT !.pc = "saving",
           !.result = ErrorResult(call.argv, << >>, << >>,
                                  heap[call.executor])]}
  /\ sent' = Nothing
  /\ UNCHANGED <<now, procCwd, procEnv, heap, socket, activeSessions,
                 spawned, history>>
  /\ UNCHANGED <<asks, run>>

\* addEntry resolved: callback({ result: response }), then the 'output'
\* event with the same commandId.
AddEntryDone(call) ==
  /\ UNCHANGED frontEnds
  /\ Up
  /\ UNCHANGED received
  /\ call.pc = "saving"
  /\ history' = Append(history, call.result)
  /\ calls' = calls \ {call}
  /\ sent' = [socket |-> call.socket, kind |-> "result", pid |-> call.pid,
              answers |-> call.command, spawnedAs |-> call.argv,
              response |-> RemoteCommandResult(call.result, call.command),
              output |-> [commandId |-> call.command.id,
                          type |-> "complete", data |-> call.result]]
  /\ UNCHANGED <<now, procCwd, procEnv, heap, socket, activeSessions,
                 spawned>>
  /\ UNCHANGED <<asks, run>>

\* addEntry rejected: the catch block answers callback({ error }).
AddEntryFail(call) ==
  /\ UNCHANGED frontEnds
  /\ Up
  /\ UNCHANGED received
  /\ call.pc = "saving"
  /\ calls' = calls \ {call}
  /\ sent' = ErrorAck(call.socket, "SQLITE_ERROR")
  /\ UNCHANGED <<now, procCwd, procEnv, heap, socket, activeSessions,
                 spawned, history>>
  /\ UNCHANGED <<asks, run>>

\* socket.on('cd')
CdListener(c, path) ==
  /\ UNCHANGED frontEnds
  /\ Up
  /\ received' = received + 1
  /\ IF Session(c) = NoSession
     THEN /\ sent' = ErrorAck(c, "Session not found")
          /\ UNCHANGED <<procCwd, heap>>
     ELSE LET e == Session(c).executor
              cd == changeDirectory(heap[e], procCwd, path)
          IN /\ Len(cd.executor.cwd) <= MaxDepth
             /\ heap' = [heap EXCEPT ![e] = cd.executor]
             /\ procCwd' = cd.procCwd
             /\ sent' = IF cd.threw THEN ErrorAck(c, "ENOENT: chdir")
                        ELSE [socket |-> c, kind |-> "cd", success |-> TRUE,
                              cwd |-> cd.executor.cwd]
  /\ UNCHANGED <<now, procEnv, socket, activeSessions, spawned, calls,
                 history>>
  /\ UNCHANGED <<asks, run>>

\* The cd event of a connected socket.
CdHandler(c, path) ==
  /\ received < MaxEvents
  /\ socket[c].state = "connected"
  /\ CdListener(c, path)

\* socket.on('env')
EnvListener(c) ==
  /\ UNCHANGED frontEnds
  /\ Up
  /\ received' = received + 1
  /\ sent' = IF Session(c) = NoSession
             THEN ErrorAck(c, "Session not found")
             ELSE [socket |-> c, kind |-> "env",
                   cwd |-> heap[Session(c).executor].cwd,
                   env |-> heap[Session(c).executor].env]
  /\ UNCHANGED <<now, procCwd, procEnv, heap, socket, activeSessions,
                 spawned, calls, history>>
  /\ UNCHANGED <<asks, run>>

\* The env event of a connected socket.
EnvHandler(c) ==
  /\ received < MaxEvents
  /\ socket[c].state = "connected"
  /\ EnvListener(c)

\* An execute event whose payload is null (with an acknowledgement): the
\* log line reads command.command before the try block.
ExecuteHandlerNoPayload(c) ==
  /\ UNCHANGED frontEnds
  /\ Up
  /\ received < MaxEvents
  /\ received' = received + 1
  /\ socket[c].state = "connected"
  /\ sent' = IF Session(c) = NoSession
             THEN ErrorAck(c, "Session not found")
             ELSE IF ~hasPermission(socket[c].permissions, "execute")
             THEN ErrorAck(c, "Permission denied")
             ELSE Uncaught(c, "TypeError: Cannot read properties of null")
  /\ UNCHANGED <<now, procCwd, procEnv, heap, socket, activeSessions,
                 spawned, calls, history>>
  /\ UNCHANGED <<asks, run>>

\* An env event sent without an acknowledgement: callback is undefined.
EnvHandlerNoAck(c) ==
  /\ UNCHANGED frontEnds
  /\ Up
  /\ received < MaxEvents
  /\ received' = received + 1
  /\ socket[c].state = "connected"
  /\ sent' = Uncaught(c, "TypeError: callback is not a function")
  /\ UNCHANGED <<now, procCwd, procEnv, heap, socket, activeSessions,
                 spawned, calls, history>>
  /\ UNCHANGED <<asks, run>>

\* AIAssistant.processRequest: it catches every error of the model call
\* and returns it as a chat response, so it never rejects.
AIRequests ==
  [type : {"natural-to-command", "error-analysis", "explain", "chat"},
   query : {"ls -la"}]

\* What the model call does: it returns a text block, it throws (network,
\* key, rate limit), or it returns no content block, so that reading
\* response.content[0].text throws.
AIOutcomes == {"text", "api error", "no content"}
typeMap(requestType) ==
  IF requestType = "natural-to-command" THEN "command"
  ELSE IF requestType = "error-analysis" THEN "suggestion"
  ELSE IF requestType = "explain" THEN "explanation"
  ELSE "chat"

\* The try block of processRequest.
tryBlock(request, outcome) ==
  IF outcome = "api error"
  THEN [threw |-> TRUE, message |-> "Connection error."]
  ELSE IF outcome = "no content"
  THEN [threw |-> TRUE, message |-> "Cannot read properties of undefined"]
  ELSE [threw |-> FALSE,
        value |-> [type |-> typeMap(request.type), content |-> <<"text">>]]

\* processRequest: the catch block turns whatever the try block threw into
\* a chat response.
processRequestRethrows(request, outcome) ==
  LET r == tryBlock(request, outcome) IN
  IF r.threw THEN [type |-> "<rejected>", content |-> <<r.message>>]
  ELSE r.value

processRequest(request, outcome) ==
  LET r == tryBlock(request, outcome) IN
  IF r.threw THEN [type |-> "chat", content |-> <<"Error: ", r.message>>]
  ELSE r.value

\* socket.on('ai'), from the event to the await of processRequest.
AiHandler(c, request) ==
  /\ UNCHANGED frontEnds
  /\ Up
  /\ received < MaxEvents
  /\ received' = received + 1
  /\ socket[c].state = "connected"
  /\ IF ~hasPermission(socket[c].permissions, "ai")
     THEN /\ sent' = ErrorAck(c, "Permission denied")
          /\ UNCHANGED asks
     ELSE /\ asks' = asks \cup {[id |-> received + 1, socket |-> c,
                                  request |-> request]}
          /\ sent' = Nothing
  /\ UNCHANGED <<now, procCwd, procEnv, heap, socket, activeSessions,
                 spawned, calls, history, run>>

\* processRequest resolved: callback({ response }).
AiResponse(ask, outcome) ==
  /\ UNCHANGED frontEnds
  /\ Up
  /\ UNCHANGED received
  /\ asks' = asks \ {ask}
  /\ sent' = [socket |-> ask.socket, kind |-> "ai", answers |-> ask.request,
              outcome |-> outcome,
              response |-> processRequest(ask.request, outcome)]
  /\ UNCHANGED <<now, procCwd, procEnv, heap, socket, activeSessions,
                 spawned, calls, history, run>>

Next ==
  \/ Tick
  \/ \E c \in Sockets, token \in Tokens : Connect(c, token)
  \/ \E c \in Sockets : Disconnect(c)
  \/ \E c \in Sockets, command \in RemoteCommands : ExecuteHandler(c, command)
  \/ \E c \in Sockets, path \in PathInputs : CdHandler(c, path)
  \/ \E c \in Sockets : EnvHandler(c)
  \/ \E call \in calls : ChildClose(call)
  \/ \E call \in calls : ChildError(call)
  \/ \E call \in calls : AddEntryDone(call)
  \/ \E call \in calls : AddEntryFail(call)
  \/ \E c \in Sockets : ExecuteHandlerNoPayload(c)
  \/ \E c \in Sockets : EnvHandlerNoAck(c)
  \/ \E c \in Sockets, request \in AIRequests : AiHandler(c, request)
  \/ \E ask \in asks, outcome \in AIOutcomes : AiResponse(ask, outcome)

Spec == Init /\ [][Next]_vars

\* The same Gateway serving clients that send their commands with working
\* directories and overlays, and ask for the environment afterwards.
DirNext ==
  \/ \E c \in Sockets, token \in Tokens : Connect(c, token)
  \/ \E c \in Sockets, command \in DirCommands : ExecuteHandler(c, command)
  \/ \E c \in Sockets : EnvHandler(c)
  \/ \E call \in calls : ChildClose(call)
  \/ \E call \in calls : AddEntryDone(call)

DirSpec == Init /\ [][DirNext]_vars

\* The same Gateway serving clients that start the program inside their
\* sessions.
GuardNext ==
  \/ \E c \in Sockets, token \in Tokens : Connect(c, token)
  \/ \E c \in Sockets, command \in GuardCommands : ExecuteHandler(c, command)
  \/ \E call \in calls : ChildClose(call)
  \/ \E call \in calls : AddEntryDone(call)

GuardSpec == Init /\ [][GuardNext]_vars

\* ------------------------------------------- one execute call, in detail
\* A local front end (the REPL) owns one Executor, heap[1] here, and awaits
\* each execute before it reads the next line.  The child writes text to
\* its two pipes; the pipes hand it on in chunks cut at arbitrary bytes.
ByteA == "61"
ByteLead == "C3"
ByteCont == "A9"
CharA == "a"
CharE == "U+00E9"
Replacement == "U+FFFD"
Chars == {CharA, CharE}
Streams == {"stdout", "stderr"}

\* UTF-8: "a" is one byte, U+00E9 is the two bytes C3 A9.
Encode(ch) == IF ch = CharA THEN <<ByteA>> ELSE <<ByteLead, ByteCont>>

\* data.toString(): each chunk is decoded on its own; a byte that is not
\* part of a complete character within the chunk becomes U+FFFD.
RECURSIVE toString(_)
toString(data) ==
  IF data = << >> THEN << >>
  ELSE IF Head(data) = ByteA THEN <<CharA>> \o toString(Tail(data))
  ELSE IF Head(data) = ByteLead /\ Len(data) >= 2 /\ data[2] = ByteCont
       THEN <<CharE>> \o toString(SubSeq(data, 3, Len(data)))
       ELSE <<Replacement>> \o toString(Tail(data))

\* How a child can end: exit with a code, or termination by a signal.
NoStatus == [code |-> Null, signal |-> Null]
ExitStatuses ==
  {[code |-> Num(0), signal |-> Null], [code |-> Num(7), signal |-> Null],
   [code |-> Null, signal |-> <<"SIGKILL">>]}
SpawnFailure == [code |-> Num(-2), signal |-> Null]

Returned == run.pc \in {"idle", "closed", "rejected"}
gateway == <<now, socket, activeSessions, calls, history, received, sent,
             asks>>

\* executor.changeDirectory(dir) between two commands.
LocalCd(path) ==
  /\ UNCHANGED frontEnds
  /\ Returned
  /\ LET cd == changeDirectory(heap[1], procCwd, path) IN
       /\ Len(cd.executor.cwd) <= MaxDepth
       /\ heap' = [heap EXCEPT ![1] = cd.executor]
       /\ procCwd' = cd.procCwd
  /\ UNCHANGED <<procEnv, spawned, run>>
  /\ UNCHANGED gateway

\* await executor.execute(command): the Promise executor runs, spawn
\* included, and the listeners are attached.
LocalExecute(command) ==
  /\ UNCHANGED frontEnds
  /\ Returned
  /\ spawned < MaxSpawn
  /\ spawned' = spawned + 1
  /\ LET promise == execute(heap[1], procCwd, procEnv, command) IN
       run' = [pc |-> IF promise.state = "rejected" THEN "rejected"
                      ELSE IF promise.child = "error" THEN "failed"
                      ELSE "running",
               command |-> command,
               options |-> SpawnOptions(heap[1], procCwd, procEnv),
               text |-> [st \in Streams |-> << >>],
               pipe |-> [st \in Streams |-> << >>],
               stdout |-> << >>, stderr |-> << >>,
               status |-> NoStatus,
               promise |-> IF promise.state = "rejected"
                           THEN [state |-> "rejected", value |-> Nothing]
                           ELSE Pending]
  /\ UNCHANGED <<procCwd, procEnv, heap>>
  /\ UNCHANGED gateway

\* The child writes one character to one of its streams (MaxWrite
\* characters in all).
ChildWrites(st, ch) ==
  /\ UNCHANGED frontEnds
  /\ run.pc = "running"
  /\ Len(run.text["stdout"]) + Len(run.text["stderr"]) < MaxWrite
  /\ run' = [run EXCEPT !.text[st] = Append(@, ch),
                        !.pipe[st] = @ \o Encode(ch)]
  /\ UNCHANGED <<procCwd, procEnv, heap, spawned>>
  /\ UNCHANGED gateway

\* child.stdout.on('data'): a chunk of n bytes arrives.
StdoutData(n) ==
  /\ UNCHANGED frontEnds
  /\ run.pc \in {"running", "exited"}
  /\ n <= Len(run.pipe["stdout"])
  /\ run' = [run EXCEPT
               !.stdout = @ \o toString(SubSeq(run.pipe["stdout"], 1, n)),
               !.pipe["stdout"] = SubSeq(@, n + 1, Len(@))]
  /\ UNCHANGED <<procCwd, procEnv, heap, spawned>>
  /\ UNCHANGED gateway

\* child.stderr.on('data')
StderrData(n) ==
  /\ UNCHANGED frontEnds
  /\ run.pc \in {"running", "exited"}
  /\ n <= Len(run.pipe["stderr"])
  /\ run' = [run EXCEPT
               !.stderr = @ \o toString(SubSeq(run.pipe["stderr"], 1, n)),
               !.pipe["stderr"] = SubSeq(@, n + 1, Len(@))]
  /\ UNCHANGED <<procCwd, procEnv, heap, spawned>>
  /\ UNCHANGED gateway

\* The child ends; its pipes are still to be drained.
ChildExit(status) ==
  /\ UNCHANGED frontEnds
  /\ run.pc = "running"
  /\ run' = [run EXCEPT !.pc = "exited", !.status = status]
  /\ UNCHANGED <<procCwd, procEnv, heap, spawned>>
  /\ UNCHANGED gateway

\* child.on('error') after a failed launch.
ChildErrorEvent ==
  /\ UNCHANGED frontEnds
  /\ run.pc = "failed"
  /\ run' = [run EXCEPT
               !.pc = "errored", !.status = SpawnFailure,
               !.promise = resolve(@, ErrorResult(run.command, run.stdout,
                                                  run.stderr, heap[1]))]
  /\ UNCHANGED <<procCwd, procEnv, heap, spawned>>
  /\ UNCHANGED gateway

\* child.on('close'): after the exit once both pipes have ended, and also
\* after the 'error' event of a failed launch.
ChildCloseEvent ==
  /\ UNCHANGED frontEnds
  /\ \/ run.pc = "errored"
     \/ run.pc = "exited" /\ \A st \in Streams : run.pipe[st] = << >>
  /\ run' = [run EXCEPT
               !.pc = "closed",
               !.promise = resolve(@, CloseResult(run.command,
                                                  run.status.code, run.stdout,
                                                  run.stderr, heap[1]))]
  /\ UNCHANGED <<procCwd, procEnv, heap, spawned>>
  /\ UNCHANGED gateway

ExecNext ==
  \/ \E path \in LocalPaths : LocalCd(path)
  \/ \E command \in Commands : LocalExecute(command)
  \/ \E st \in Streams, ch \in Chars : ChildWrites(st, ch)
  \/ \E n \in 1..(2 * MaxWrite) : StdoutData(n)
  \/ \E n \in 1..(2 * MaxWrite) : StderrData(n)
  \/ \E status \in ExitStatuses : ChildExit(status)
  \/ ChildErrorEvent
  \/ ChildCloseEvent

ExecSpec == Init /\ [][ExecNext]_vars


\* ------------------------------------------- HTTP routes and the history
MaxRows == 2
MinKeyLength == 32

\* Stored rows: the command text, as a list of characters, and the exit
\* code.
Rows ==
  {[command |-> <<"l", "s">>, exitCode |-> 0],
   [command |-> <<"L", "S">>, exitCode |-> 1],
   [command |-> <<"p", "s">>, exitCode |-> 127]}
Keywords == {<< >>, <<"s">>, <<"l", "s">>, <<"_", "s">>, <<"%">>}

\* SQLite's LIKE: % is any run of characters, _ any one character, and
\* letters match without regard to case.
Lower(ch) == IF ch = "L" THEN "l" ELSE IF ch = "S" THEN "s" ELSE ch
RECURSIVE Like(_, _)
Like(pattern, text) ==
  IF pattern = << >> THEN text = << >>
  ELSE IF Head(pattern) = "%"
       THEN Like(Tail(pattern), text)
            \/ (text # << >> /\ Like(pattern, Tail(text)))
       ELSE /\ text # << >>
            /\ Head(pattern) = "_" \/ Lower(Head(pattern)) = Lower(Head(text))
            /\ Like(Tail(pattern), Tail(text))

\* text contains keyword as a substring
Contains(text, keyword) ==
  \E i \in 1..(Len(text) - Len(keyword) + 1) :
    SubSeq(text, i, i + Len(keyword) - 1) = keyword

RECURSIVE Reverse(_)
Reverse(seq) ==
  IF seq = << >> THEN << >> ELSE Append(Reverse(Tail(seq)), Head(seq))

\* HistoryManager.search: the WHERE clause built from the options that are
\* set, ORDER BY timestamp DESC (rows are stored in order of time), LIMIT
\* when limit is not 0 and OFFSET when, besides, offset is not 0.
SearchOptions(keyword, exitCode, limit, offset) ==
  [keyword |-> keyword, exitCode |-> exitCode, limit |-> limit,
   offset |-> offset]
search(rows, options) ==
  LET Selected(row) ==
        /\ options.keyword = << >>
           \/ Like(<<"%">> \o options.keyword \o <<"%">>, row.command)
        /\ options.exitCode = Null \/ row.exitCode = options.exitCode[1]
      ordered == Reverse(SelectSeq(rows, Selected))
      from == IF options.limit # 0 THEN options.offset ELSE 0
      upto == IF options.limit # 0 /\ from + options.limit < Len(ordered)
              THEN from + options.limit ELSE Len(ordered)
  IN SubSeq(ordered, from + 1, upto)

\* A front end stores the result of a command (HistoryManager.addEntry).
StoreEntry(row) ==
  /\ UNCHANGED frontEnds
  /\ Len(history) < MaxRows
  /\ history' = Append(history, row)
  /\ sent' = Nothing
  /\ UNCHANGED <<now, procCwd, procEnv, heap, socket, activeSessions,
                 spawned, calls, received, asks, run>>

\* The apiKey of a POST /auth/token body: absent, a string of some length,
\* or a JSON number.
ApiKeys ==
  {[type |-> "undefined", length |-> 0], [type |-> "number", length |-> 0]}
  \cup [type : {"string"}, length : {0, MinKeyLength - 1, MinKeyLength}]

\* !apiKey, and apiKey.length (undefined for what is not a string)
Falsy(apiKey) ==
  apiKey.type = "undefined" \/ (apiKey.type = "string" /\ apiKey.length = 0)
LengthOf(apiKey) ==
  IF apiKey.type = "string" THEN Num(apiKey.length) ELSE Null

\* apiKey.length < 32: a comparison with undefined is false.
LessThan(length, n) == length # Null /\ length[1] < n

HttpResponse(route, request, status, body, queried) ==
  [socket |-> 0, kind |-> "http", route |-> route, request |-> request,
   status |-> status, body |-> body, queried |-> queried]

\* POST /auth/token
AuthToken(apiKey) ==
  /\ UNCHANGED frontEnds
  /\ sent' =
       IF Falsy(apiKey) \/ LessThan(LengthOf(apiKey), MinKeyLength)
       THEN HttpResponse("/auth/token", apiKey, 401,
                         [error |-> "Invalid API key"], FALSE)
       ELSE HttpResponse("/auth/token", apiKey, 200,
                         [token |-> [sig |-> "good", exp |-> now + ExpiresIn,
                                     userId |-> "user-1",
                                     permissions |->
                                       {"execute", "history", "ai"}],
                          expiresAt |-> now + ExpiresIn], FALSE)
  /\ UNCHANGED <<now, procCwd, procEnv, heap, socket, activeSessions,
                 spawned, calls, history, received, asks, run>>

\* Authorization headers of a request.
NoHeader == [scheme |-> "none", token |-> NoToken]
HttpTokens ==
  {token \in Tokens :
     token = NoToken \/ token.permissions = {"execute", "history", "ai"}}
Headers ==
  {NoHeader} \cup [scheme : {"Bearer"}, token : HttpTokens]
  \cup [scheme : {"Basic"}, token : HttpTokens \ {NoToken}]

\* The routes are registered with this.authenticateRequest, the method
\* taken off the object: the router calls it as a plain function, so this
\* is undefined inside it.
Undefined == "undefined"
RouteThis == Undefined

\* authenticateRequest as called with `self` for this: reading
\* this.jwtSecret of undefined throws inside the try block.
authenticateRequest(self, header, t) ==
  IF header.scheme # "Bearer" THEN "Authentication required"
  ELSE IF self = Undefined THEN "Invalid token"
  ELSE IF jwtVerify(header.token, t) THEN "next"
  ELSE "Invalid token"

\* GET /api/history?keyword=..&limit=..&offset=.. (limit 50 and offset 0
\* when absent)
DefaultLimit == 50
HttpQueries ==
  [keyword : Keywords, limit : {DefaultLimit}, offset : {0}]
  \cup [keyword : {<< >>}, limit : {1}, offset : {0, 1}]
GetHistory(header, query) ==
  /\ UNCHANGED frontEnds
  /\ LET auth == authenticateRequest(RouteThis, header, now) IN
       sent' =
         IF auth # "next"
         THEN HttpResponse("/api/history", [header |-> header, query |-> query],
                           401, [error |-> auth], FALSE)
         ELSE HttpResponse("/api/history", [header |-> header, query |-> query],
                           200,
                           search(history,
                                  SearchOptions(query.keyword, Null,
                                                query.limit, query.offset)),
                           TRUE)
  /\ UNCHANGED <<now, procCwd, procEnv, heap, socket, activeSessions,
                 spawned, calls, history, received, asks, run>>

\* GET /api/history/stats
GetStats(header) ==
  /\ UNCHANGED frontEnds
  /\ LET auth == authenticateRequest(RouteThis, header, now) IN
       sent' =
         IF auth # "next"
         THEN HttpResponse("/api/history/stats", [header |-> header], 401,
                           [error |-> auth], FALSE)
         ELSE HttpResponse("/api/history/stats", [header |-> header], 200,
                           [totalCommands |-> Len(history)], TRUE)
  /\ UNCHANGED <<now, procCwd, procEnv, heap, socket, activeSessions,
                 spawned, calls, history, received, asks, run>>

HttpNext ==
  \/ Tick
  \/ \E row \in Rows : StoreEntry(row)
  \/ \E apiKey \in ApiKeys : AuthToken(apiKey)
  \/ \E header \in Headers, query \in HttpQueries : GetHistory(header, query)
  \/ \E header \in Headers : GetStats(header)

HttpSpec == Init /\ [][HttpNext]_vars

\* -------------------------------------------------- the command line
\* `shellington history [-k keyword] [-n limit] [--failed]`
DefaultCliLimit == 20
FailedExitCode == 1
HistoryOptions ==
  [keyword : Keywords, limit : {DefaultCliLimit, 1}, failed : BOOLEAN]
HistoryCommand(options) ==
  /\ UNCHANGED frontEnds
  /\ sent' =
       [socket |-> 0, kind |-> "cli", command |-> "history",
        options |-> options,
        listed |-> search(history,
                          SearchOptions(options.keyword,
                                        IF options.failed
                                        THEN Num(FailedExitCode) ELSE Null,
                                        options.limit, 0))]
  /\ UNCHANGED <<now, procCwd, procEnv, heap, socket, activeSessions,
                 spawned, calls, history, received, asks, run>>

\* Command lines without the history subcommand.
Argvs ==
  {<< >>, <<"--tui">>, <<"--gui">>, <<"--api">>, <<"server">>,
   <<"--api", "--port", "8080">>, <<"--port", "8080", "--api">>,
   <<"--api", "--port=8080">>, <<"--api", "--host", "0.0.0.0">>,
   <<"--api", "--port", "8080", "--host", "0.0.0.0">>}
DefaultPort == 3001
DefaultHost == "localhost"
parseInt(str) == IF str = "8080" THEN 8080 ELSE DefaultPort
startsWithDash(arg) == arg \notin {"8080", "0.0.0.0", "server"}

\* program.opts() after program.parse(): flags, and options that take the
\* next argument (or the text after `=`) as their value.
RECURSIVE opts(_, _)
opts(argv, acc) ==
  IF argv = << >> THEN acc
  ELSE LET arg == Head(argv) IN
    IF arg = "--api" THEN opts(Tail(argv), [acc EXCEPT !.api = TRUE])
    ELSE IF arg = "--gui" THEN opts(Tail(argv), [acc EXCEPT !.gui = TRUE])
    ELSE IF arg = "--port=8080"
         THEN opts(Tail(argv), [acc EXCEPT !.port = "8080"])
    ELSE IF arg = "--port" /\ Len(argv) >= 2
         THEN opts(Tail(Tail(argv)), [acc EXCEPT !.port = argv[2]])
    ELSE IF arg = "--host" /\ Len(argv) >= 2
         THEN opts(Tail(Tail(argv)), [acc EXCEPT !.host = argv[2]])
    ELSE opts(Tail(argv), acc)
DefaultOpts ==
  [api |-> FALSE, gui |-> FALSE, port |-> "3001", host |-> DefaultHost]

NotStarted == [what |-> "nothing", port |-> 0, host |-> ""]
ApiStarted(port, host) == [what |-> "api", port |-> port, host |-> host]

\* The subcommand actions and the block after program.parse(): the main
\* flags are handled when no argument lacks a leading dash.
Started(argv) ==
  LET options == opts(argv, DefaultOpts) IN
  IF argv # << >> /\ Head(argv) = "server"
  THEN ApiStarted(DefaultPort, DefaultHost)
  ELSE IF \E i \in 1..Len(argv) : ~startsWithDash(argv[i]) THEN NotStarted
  ELSE IF options.gui THEN [NotStarted EXCEPT !.what = "exit 1"]
  ELSE IF options.api THEN ApiStarted(parseInt(options.port), options.host)
  ELSE [NotStarted EXCEPT !.what = "tui"]

Main(argv) ==
  /\ UNCHANGED frontEnds
  /\ sent' = [socket |-> 0, kind |-> "cli", command |-> "main",
              argv |-> argv, options |-> opts(argv, DefaultOpts),
              started |-> Started(argv)]
  /\ UNCHANGED <<now, procCwd, procEnv, heap, socket, activeSessions,
                 spawned, calls, history, received, asks, run>>

CliNext ==
  \/ \E row \in Rows : StoreEntry(row)
  \/ \E options \in HistoryOptions : HistoryCommand(options)
  \/ \E argv \in Argvs : Main(argv)

CliSpec == Init /\ [][CliNext]_vars

\* ------------------------------------------- the line-oriented front ends
\* SimpleREPL and EnhancedREPL: readline emits 'line' for every line the
\* user submits and does not wait for the async listener of an earlier
\* line.  Each action is one segment of a listener between two awaits.
\* The History Store is taken to accept every row.
MaxLines == 2
ReplKinds == {"simple", "enhanced"}
ReplRunning == repl.kind \in ReplKinds
CoreFrame ==
  UNCHANGED <<now, procCwd, procEnv, heap, socket, activeSessions, spawned,
              calls, received, asks, run>>
SetPc(handlers, h, pc) == (handlers \ {h}) \cup {[h EXCEPT !.pc = pc]}

\* new SimpleREPL() / new EnhancedREPL()
StartRepl(kind) ==
  /\ repl.kind = "none"
  /\ repl' = [repl EXCEPT !.kind = kind]
  /\ sent' = Nothing
  /\ UNCHANGED history
  /\ UNCHANGED <<tui, stats>>
  /\ CoreFrame

\* 'line' with an external command: handleCommand up to the await of
\* executor.execute.  EnhancedREPL replaces currentExecution first.
ReplLine(command) ==
  /\ ReplRunning
  /\ repl.lines < MaxLines
  /\ repl' = [repl EXCEPT
       !.lines = @ + 1,
       !.handlers = @ \cup {[id |-> repl.lines + 1, command |-> command,
                             pc |-> "running"]},
       !.currentExecution = IF repl.kind = "enhanced" THEN "running" ELSE @]
  /\ sent' = Nothing
  /\ UNCHANGED history
  /\ UNCHANGED <<tui, stats>>
  /\ CoreFrame

\* 'line' with the built-in `clear`
ReplClear ==
  /\ ReplRunning
  /\ repl.lines < MaxLines
  /\ repl' = [repl EXCEPT
       !.lines = @ + 1,
       !.currentExecution = IF repl.kind = "enhanced" THEN "null" ELSE @]
  /\ sent' = Nothing
  /\ UNCHANGED history
  /\ UNCHANGED <<tui, stats>>
  /\ CoreFrame

\* rl.on('SIGINT'): EnhancedREPL drops a running currentExecution (the
\* child is not killed); otherwise the first Ctrl+C arms a timer and the
\* second ends the process.
ReplSigint ==
  /\ ReplRunning
  /\ repl' =
       IF repl.kind = "enhanced" /\ repl.currentExecution = "running"
       THEN [repl EXCEPT !.currentExecution = "null"]
       ELSE IF repl.ctrlCCount = 0
            THEN [repl EXCEPT !.ctrlCCount = 1]
            ELSE [repl EXCEPT !.ctrlCCount = 2, !.kind = "exited"]
  /\ sent' = Nothing
  /\ UNCHANGED history
  /\ UNCHANGED <<tui, stats>>
  /\ CoreFrame

\* setTimeout(() => { ctrlCCount = 0; }, 2000)
ReplSigintTimer ==
  /\ ReplRunning
  /\ repl.ctrlCCount = 1
  /\ repl' = [repl EXCEPT !.ctrlCCount = 0]
  /\ sent' = Nothing
  /\ UNCHANGED history
  /\ UNCHANGED <<tui, stats>>
  /\ CoreFrame

\* keypress Ctrl+L: EnhancedREPL sets currentExecution to null.
ReplCtrlL ==
  /\ repl.kind = "enhanced"
  /\ repl.currentExecution # "null"
  /\ repl' = [repl EXCEPT !.currentExecution = "null"]
  /\ sent' = Nothing
  /\ UNCHANGED history
  /\ UNCHANGED <<tui, stats>>
  /\ CoreFrame

\* The child of handler h closes and execute resolves.  EnhancedREPL then
\* writes this.currentExecution.status: with currentExecution null that
\* throws inside the try block, the catch block writes the same field and
\* throws again, and handleCommand ends there, before addEntry.
ReplChildClose(h, exitCode) ==
  /\ ReplRunning
  /\ h \in repl.handlers /\ h.pc = "running"
  /\ repl' =
       IF repl.kind = "enhanced" /\ repl.currentExecution = "null"
       THEN [repl EXCEPT !.handlers = SetPc(@, h, "threw")]
       ELSE [repl EXCEPT
               !.handlers = SetPc(@, h, "saving"),
               !.currentExecution =
                  IF repl.kind = "simple" THEN @
                  ELSE IF exitCode = 0 THEN "completed" ELSE "failed"]
  /\ sent' = Nothing
  /\ UNCHANGED history
  /\ UNCHANGED <<tui, stats>>
  /\ CoreFrame

\* addEntry resolves: the row is in the store.  SimpleREPL prints the
\* output and is done; EnhancedREPL goes on to refresh lastResults.
ReplAddEntryDone(h) ==
  /\ ReplRunning
  /\ h \in repl.handlers /\ h.pc = "saving"
  /\ history' = Append(history, [line |-> h.id, command |-> h.command])
  /\ repl' = [repl EXCEPT
       !.handlers = SetPc(@, h, IF repl.kind = "enhanced" THEN "searching"
                                ELSE "done")]
  /\ sent' = Nothing
  /\ UNCHANGED <<tui, stats>>
  /\ CoreFrame

\* EnhancedREPL: the search resolves; the display-reset timer is armed.
ReplSearchDone(h) ==
  /\ ReplRunning
  /\ h \in repl.handlers /\ h.pc = "searching"
  /\ repl' = [repl EXCEPT !.handlers = SetPc(@, h, "done"),
                          !.timers = @ + 1]
  /\ sent' = Nothing
  /\ UNCHANGED history
  /\ UNCHANGED <<tui, stats>>
  /\ CoreFrame

\* setTimeout(() => { this.currentExecution = null; ... }, 2000)
ReplDisplayTimer ==
  /\ ReplRunning
  /\ repl.timers > 0
  /\ repl' = [repl EXCEPT !.timers = @ - 1, !.currentExecution = "null"]
  /\ sent' = Nothing
  /\ UNCHANGED history
  /\ UNCHANGED <<tui, stats>>
  /\ CoreFrame

ReplNext ==
  \/ \E kind \in ReplKinds : StartRepl(kind)
  \/ \E command \in {CmdEcho, CmdPwd} : ReplLine(command)
  \/ ReplClear
  \/ ReplSigint
  \/ ReplSigintTimer
  \/ ReplCtrlL
  \/ \E h \in repl.handlers, exitCode \in {0, 1} : ReplChildClose(h, exitCode)
  \/ \E h \in repl.handlers : ReplAddEntryDone(h)
  \/ \E h \in repl.handlers : ReplSearchDone(h)
  \/ ReplDisplayTimer

ReplSpec == Init /\ [][ReplNext]_vars

\* ------------------------------------------------------- late messages
\* An action message that is handled after the disconnect listener of its
\* connection has run: the listeners are those of the Gateway, run for a
\* socket whose registry entry is gone.  The late message is counted on top
\* of the events before it.
LateNext ==
  \/ \E c \in Sockets, token \in Tokens : Connect(c, token)
  \/ \E c \in Sockets : Disconnect(c)
  \/ \E c \in Sockets, command \in RemoteCommands : ExecuteHandler(c, command)
  \/ \E call \in calls : ChildClose(call)
  \/ \E call \in calls : AddEntryDone(call)
  \/ \E c \in Sockets, command \in RemoteCommands :
       /\ socket[c].state = "disconnected" /\ received <= MaxEvents
       /\ ExecuteListener(c, command)
  \/ \E c \in Sockets, path \in PathInputs :
       /\ socket[c].state = "disconnected" /\ received <= MaxEvents
       /\ CdListener(c, path)
  \/ \E c \in Sockets :
       /\ socket[c].state = "disconnected" /\ received <= MaxEvents
       /\ EnvListener(c)

LateSpec == Init /\ [][LateNext]_vars

\* ------------------------------------------------- fair event handling
\* The Gateway with well-formed messages, one command that never exits
\* (CmdHang: its child never closes) and one that does.  Every event that
\* is ready is eventually handled: the close of a child that exits, the
\* error of a child that could not be started, and the completion of a
\* history write.  The last action message is counted on
\* top of the events before it.
FairCommands ==
  [id : {"corr-1"}, command : {CmdPwd, CmdHang},
   workingDirectory : {NoPath}, environment : {NoOverlay}]

FairNext ==
  \/ \E c \in Sockets, token \in Tokens : Connect(c, token)
  \/ \E c \in Sockets, command \in FairCommands :
       /\ socket[c].state = "connected" /\ received <= MaxEvents
       /\ ExecuteListener(c, command)
  \/ \E c \in Sockets, path \in PathInputs : CdHandler(c, path)
  \/ \E c \in Sockets : EnvHandler(c)
  \/ \E call \in calls : call.argv # CmdHang /\ ChildClose(call)
  \/ \E call \in calls : ChildError(call)
  \/ \E call \in calls : AddEntryDone(call)
  \/ \E call \in calls : AddEntryFail(call)

FairSpec ==
  /\ Init /\ [][FairNext]_vars
  /\ \A pid \in 1..MaxSpawn :
       /\ WF_vars(\E call \in calls :
                    call.pid = pid /\ call.argv # CmdHang /\ ChildClose(call))
       /\ WF_vars(\E call \in calls : call.pid = pid /\ ChildError(call))
       /\ WF_vars(\E call \in calls :
                    call.pid = pid /\ (AddEntryDone(call) \/ AddEntryFail(call)))

\* ---------------------------------------------------- history statistics
\* HistoryManager.getStatistics: three statements queued on the connection,
\* each of them run on its own against the database file as it is at that
\* time.  Rows are stored meanwhile by the HistoryManager of another
\* Shellington process that uses the same file (StoreEntry).
GetStatisticsCall ==
  /\ stats.pc = "idle"
  /\ stats' = [stats EXCEPT !.pc = "total"]
  /\ sent' = Nothing
  /\ UNCHANGED <<history, repl, tui>>
  /\ CoreFrame

\* The callbacks of the three statements, in the order of the statements.
StatsQuery ==
  /\ stats.pc # "idle"
  /\ LET successful ==
           Len(SelectSeq(history, LAMBDA row : row.exitCode = 0))
     IN IF stats.pc = "total"
        THEN /\ stats' = [stats EXCEPT !.pc = "successful",
                                       !.totalCommands = Len(history)]
             /\ sent' = Nothing
        ELSE IF stats.pc = "successful"
        THEN /\ stats' = [stats EXCEPT !.pc = "mostUsed",
                                       !.successfulCommands = successful]
             /\ sent' = Nothing
        ELSE /\ stats' = [stats EXCEPT !.pc = "idle"]
             /\ sent' = [socket |-> 0, kind |-> "stats",
                         totalCommands |-> stats.totalCommands,
                         successfulCommands |-> stats.successfulCommands,
                         failedCommands |-> stats.totalCommands
                                            - stats.successfulCommands,
                         rows |-> Len(history)]
  /\ UNCHANGED <<history, repl, tui>>
  /\ CoreFrame

StatsNext ==
  \/ \E row \in Rows : StoreEntry(row)
  \/ GetStatisticsCall
  \/ StatsQuery

StatsSpec == Init /\ [][StatsNext]_vars

\* ------------------------------------------------------ the full-screen TUI
\* The Enter key handler of the input box and the handler it awaits
\* (executeCommand or handleAIInput).  A built-in command returns without
\* waiting for anything, so its handler has finished within the step of
\* its Enter key; an external command and an AI request finish later.
\* enters counts the Enter keys pressed so far.
MaxEnters == 3
TuiInputs == {"", "clear", "exit", "ls", "pwd"}
AlreadyProcessing == "Command already processing, please wait..."

\* finally { this.isProcessing = false; ... }: the value of isProcessing
\* after the try statement, whether or not the awaited handler threw.
finallySkippedOnThrow(threw) == threw

finallyBlock(threw) == FALSE

Enter(input, aiMode) ==
  /\ ~tui.exited
  /\ tui.enters < MaxEnters
  /\ tui' =
       IF tui.isProcessing
       THEN [tui EXCEPT !.enters = @ + 1, !.output = AlreadyProcessing]
       ELSE IF input = "" THEN [tui EXCEPT !.enters = @ + 1]
       ELSE IF ~aiMode /\ input = "exit"
            THEN [tui EXCEPT !.enters = @ + 1,
                             !.commandHistory = @ + 1, !.isProcessing = TRUE,
                             !.exited = TRUE]
       ELSE IF ~aiMode /\ input = "clear"
            THEN [tui EXCEPT !.enters = @ + 1,
                             !.commandHistory = @ + 1,
                             !.isProcessing = finallyBlock(FALSE),
                             !.output = ""]
       ELSE [tui EXCEPT
               !.enters = @ + 1,
               !.commandHistory = @ + 1,
               !.isProcessing = TRUE,
               !.output = input,
               !.handlers = @ \cup {[id |-> tui.commandHistory + 1,
                                     input |-> input,
                                     kind |-> IF aiMode THEN "ai"
                                              ELSE "command"]}]
  /\ sent' = Nothing
  /\ UNCHANGED <<history, repl, stats>>
  /\ CoreFrame

\* The awaited handler h finishes: it returns (an external command has
\* then stored its result), or an error leaves it (an append to the output
\* box that throws), which the catch block of the key handler reports.
TuiSettle(h, threw) ==
  /\ ~tui.exited
  /\ h \in tui.handlers
  /\ tui' = [tui EXCEPT !.handlers = @ \ {h},
                        !.isProcessing = finallyBlock(threw),
                        !.output = IF threw THEN "Error" ELSE h.input]
  /\ history' = IF h.kind = "command" /\ ~threw
                THEN Append(history, [line |-> h.id, command |-> h.input])
                ELSE history
  /\ sent' = Nothing
  /\ UNCHANGED <<repl, stats>>
  /\ CoreFrame

TuiNext ==
  \/ \E input \in TuiInputs, aiMode \in BOOLEAN : Enter(input, aiMode)
  \/ \E h \in tui.handlers, threw \in BOOLEAN : TuiSettle(h, threw)

TuiSpec == Init /\ [][TuiNext]_vars

\* ---------------------------------------------------------------- claims
Live(c) == c \in DOMAIN activeSessions
ExecutorOf(c) == heap[Session(c).executor]
SpawnOptionsOf(c) == SpawnOptions(ExecutorOf(c), procCwd, procEnv)
LacksExecute(c) ==
  "execute" \notin socket[c].permissions /\ "*" \notin socket[c].permissions

\* A step in which the Gateway handles an action message of socket c.
HandlerOf(c) ==
  \/ \E command \in RemoteCommands : ExecuteHandler(c, command)
  \/ \E path \in PathInputs : CdHandler(c, path)
  \/ EnvHandler(c)

\* C1: for two distinct live sessions A and B, no action handled for A
\* (with its changeDirectory and setEnvironment calls) changes the working
\* directory or the environment B's next execute spawns its command with.
\* (Stated by contraposition: a step that changes B's spawn options is not
\* the handling of an action of A.)
C1_SessionIsolation ==
  [][\A a, b \in Sockets :
       (a # b /\ Live(a) /\ Live(b) /\ Live(b)'
        /\ SpawnOptionsOf(b)' # SpawnOptionsOf(b))
         => ~HandlerOf(a)]_vars

\* A has set X=1 while B was live, and B's next command still runs with X
\* unset.
C1_Witness ==
  \E a, b \in Sockets :
    /\ a # b /\ Live(a) /\ Live(b)
    /\ ExecutorOf(a).env["X"] = "1"
    /\ procEnv["X"] = "1"
    /\ SpawnOptionsOf(b).env["X"] = Unset
    /\ ShellStdout(CmdEcho, SpawnOptionsOf(b)) = << >>

\* C2: at every instant at most one subprocess spawned by execute actions
\* of a given connection is running.
C2_OneInFlightPerSession ==
  \A c \in Sockets :
    Cardinality({call \in calls : call.socket = c /\ call.pc = "running"}) <= 1

\* C3: a directory change that is answered with a failure leaves the
\* session's working directory as it was before the call.
C3_FailedCdKeepsDirectory ==
  [][\A c \in Sockets, path \in PathInputs :
       (Live(c) /\ sent'.kind = "error" /\ CdHandler(c, path))
         => ExecutorOf(c)'.cwd = ExecutorOf(c).cwd]_vars

\* C4: for every session's Executor and every command string, the promise
\* execute returns is never a rejected one.
C4_ExecuteNeverRejects ==
  \A c \in Sockets, command \in Commands :
    Live(c) =>
      execute(ExecutorOf(c), procCwd, procEnv, command).state # "rejected"

\* C5: a handshake with a missing, wrongly signed or expired token ends in
\* the rejected state without running the connection handler (no Executor
\* allocated, registry unchanged), and a rejected socket never has a
\* registry entry.
BadToken(token) == token = NoToken \/ token.sig # "good" \/ token.exp <= now

C5_BadTokenRejected ==
  /\ [](\A c \in Sockets : socket[c].state = "rejected" => ~Live(c))
  /\ [][\A c \in Sockets, token \in Tokens :
          (socket[c].state = "new" /\ BadToken(token) /\ Connect(c, token))
            => /\ socket'[c].state = "rejected"
               /\ activeSessions' = activeSessions
               /\ heap' = heap]_vars

\* A socket was rejected for an invalid (wrongly signed or expired) token at
\* a time when a token could have expired, and the Gateway went on serving.
C5_Witness ==
  \E c \in Sockets :
    /\ socket[c].state = "rejected"
    /\ socket[c].error = "Invalid token"
    /\ ~Live(c)
    /\ now >= ExpiresIn
    /\ received >= 2

\* C6: an execute action of a connection whose permissions hold neither
\* execute nor * is answered 'Permission denied', starts no child, changes
\* no Executor and no process state, and writes no history row.
C6_ExecuteDenied ==
  [][\A c \in Sockets :
       (socket[c].state = "connected" /\ LacksExecute(c))
         => \A command \in RemoteCommands :
              ExecuteHandler(c, command)
                => /\ sent' = ErrorAck(c, "Permission denied")
                   /\ UNCHANGED <<spawned, calls, heap, procCwd, procEnv,
                                  history>>]_vars

C6_Witness ==
  /\ sent.kind = "error"
  /\ sent.error = "Permission denied"
  /\ LacksExecute(sent.socket)
  /\ Live(sent.socket)

\* C7: a cd action of a connection whose permissions hold neither execute
\* nor * is answered 'Permission denied' and leaves the working directory
\* of its session unchanged.
C7_CdDenied ==
  [][\A c \in Sockets, path \in PathInputs :
       (socket[c].state = "connected" /\ LacksExecute(c)
        /\ CdHandler(c, path))
         => /\ sent' = ErrorAck(c, "Permission denied")
            /\ heap' = heap]_vars

\* C8: an action handled for a connection at or after the expiry instant of
\* the token that authenticated it is answered with an error and has no
\* effect: no child started, no Executor or process state changed.
C8_ExpiredTokenActionRejected ==
  [][\A c \in Sockets :
       (socket[c].state = "connected" /\ now >= socket[c].exp
        /\ HandlerOf(c))
         => /\ sent'.kind = "error"
            /\ UNCHANGED <<spawned, calls, heap, procCwd, procEnv>>]_vars

\* C9: once a connection has disconnected, in whatever state, the registry
\* holds no entry for it, and no later step puts one back.
C9_DisconnectRemovesSession ==
  \A c \in Sockets : socket[c].state = "disconnected" => ~Live(c)

\* A command that was in flight at the disconnect completed afterwards.
C9_Witness ==
  /\ sent.kind = "result"
  /\ socket[sent.socket].state = "disconnected"
  /\ ~Live(sent.socket)

\* C10: every delivered result, acknowledgement and output event alike,
\* carries the id of the request whose command produced it, and its command
\* field is that request's command text, the text the child was spawned with.
C10_ResultCorrelation ==
  sent.kind = "result" =>
    /\ sent.response.commandId = sent.answers.id
    /\ sent.output.commandId = sent.answers.id
    /\ sent.response.result.command = sent.answers.command
    /\ sent.spawnedAs = sent.answers.command

\* A result is delivered while a request with another id and another
\* command is still in flight.
C10_Witness ==
  /\ sent.kind = "result"
  /\ \E call \in calls :
       /\ call.command.id # sent.answers.id
       /\ call.command.command # sent.answers.command
       /\ call.pid < sent.pid

C12_ExitCodePreserved ==
  (run.pc = "closed" /\ run.status # SpawnFailure /\ run.status.code # Null)
    => /\ run.promise.state = "resolved"
       /\ run.promise.value.exitCode = run.status.code[1]

\* `exit 7`: the result says 7.
C12_Witness ==
  /\ run.pc = "closed"
  /\ run.status.code = Num(7)
  /\ run.promise.value.exitCode = 7

\* C13 (ExecSpec): a child terminated by a signal (close without a numeric
\* code) yields a result whose exitCode is not 0.
C13_SignalIsFailure ==
  (run.pc = "closed" /\ run.status.signal # Null)
    => run.promise.value.exitCode # 0

\* C14: the workingDirectory of every CommandResult is the directory the
\* child was spawned in, the session's directory when execute was invoked,
\* also when the session's directory is changed while the command runs.
C14_WorkingDirectoryAtInvocation ==
  \A call \in calls :
    call.pc = "saving" => call.result.workingDirectory = call.options.cwd

\* C15: on one connection results are delivered in the order in which the
\* execute actions were received: no result is delivered while an execute
\* received earlier on the same connection is still unanswered.
C15_ResultsInReceiveOrder ==
  sent.kind = "result" =>
    ~\E call \in calls : call.socket = sent.socket /\ call.pid < sent.pid

\* C20 (ExecSpec): the stdout of the result is the concatenation of all the
\* stdout chunks, which is the text the child wrote to its stdout, nothing
\* lost and nothing added, and likewise for stderr.
C20_OutputIsConcatenation ==
  (run.pc = "closed" /\ run.status # SpawnFailure)
    => /\ run.promise.value.stdout = run.text["stdout"]
       /\ run.promise.value.stderr = run.text["stderr"]

\* C16: the registry holds at most one entry per connection, no two entries
\* refer to the same Executor, and the Executor of the server itself
\* (heap[1]) is no session's Executor, is used by no execute call and is
\* never changed by a step of the Gateway.
C16_OneExecutorPerConnection ==
  /\ [](/\ DOMAIN activeSessions \subseteq Sockets
        /\ \A c, d \in DOMAIN activeSessions :
             c # d => Session(c).executor # Session(d).executor
        /\ \A c \in DOMAIN activeSessions : Session(c).executor # 1
        /\ \A call \in calls : call.executor # 1)
  /\ [][heap'[1] = heap[1]]_vars

\* Two live sessions, one of which has left the directory it started in.
C16_Witness ==
  \E c, d \in Sockets :
    /\ c # d /\ Live(c) /\ Live(d)
    /\ ExecutorOf(c).cwd # ExecutorOf(d).cwd
    /\ ExecutorOf(d).cwd = heap[1].cwd

\* C17: an ai action of a connection whose permissions hold neither ai nor
\* * is answered 'Permission denied' and the Assistant is not called; with
\* the permission the request goes to the Assistant as it came, the
\* Assistant's response for it is what the caller gets, and neither step
\* writes a history row.
LacksAi(c) ==
  "ai" \notin socket[c].permissions /\ "*" \notin socket[c].permissions

C17_AiQuery ==
  /\ [][\A c \in Sockets :
          socket[c].state = "connected"
            => \A request \in AIRequests :
                 AiHandler(c, request)
                   => /\ history' = history
                      /\ IF LacksAi(c)
                         THEN /\ sent' = ErrorAck(c, "Permission denied")
                              /\ asks' = asks
                         ELSE /\ \E ask \in asks' \ asks :
                                   /\ ask.socket = c
                                   /\ ask.request = request
                              /\ sent'.kind # "error"]_vars
  /\ [][\A ask \in asks, outcome \in AIOutcomes :
          AiResponse(ask, outcome)
            => /\ history' = history
               /\ sent'.socket = ask.socket
               /\ sent'.answers = ask.request
               /\ sent'.response = processRequest(ask.request, outcome)]_vars

\* An explain request has been answered with the Assistant's explanation,
\* and the History Store is still empty.
C17_Witness ==
  /\ sent.kind = "ai"
  /\ sent.answers.type = "explain"
  /\ sent.response.type = "explanation"
  /\ "ai" \in socket[sent.socket].permissions
  /\ history = << >>

\* C18: no action message, whatever its shape, raises an error that leaves
\* the Gateway's handler unhandled.
C18_NoEscapingError == sent.kind # "uncaught"

\* C19: when the History Store write of an execute action fails, the caller
\* of that action gets an error response, the registry and the connection
\* are left as they were, and a connected socket always has its session.
C19_HistoryFailureIsLocal ==
  /\ [](\A c \in Sockets : socket[c].state = "connected" => Live(c))
  /\ [][\A call \in calls :
          AddEntryFail(call)
            => /\ sent'.kind = "error"
               /\ sent'.socket = call.socket
               /\ sent'.error = "SQLITE_ERROR"
               /\ activeSessions' = activeSessions
               /\ socket' = socket]_vars

\* The only command of the only connection lost its history write, and a
\* later env action of that connection has been served.
C19_Witness ==
  /\ spawned = 1 /\ calls = {} /\ history = << >>
  /\ sent.kind = "env"
  /\ Live(sent.socket)
  /\ \A d \in Sockets \ {sent.socket} : socket[d].state = "new"

\* C21 (ExecSpec): a successful changeDirectory with a relative path
\* resolves it against the Executor's current directory, the next execute
\* is spawned in the directory the Executor is then in, and two relative
\* changes in a row amount to the change by the joined path.
C21_RelativeCdComposes ==
  /\ [][\A path \in LocalPaths :
          (~path.abs /\ Resolve(heap[1].cwd, path) \in ExistingDirs
           /\ LocalCd(path))
            => heap'[1].cwd = Resolve(heap[1].cwd, path)]_vars
  /\ [][\A command \in Commands :
          (LocalExecute(command) /\ run'.pc = "running")
            => run'.options.cwd = heap[1].cwd]_vars
  /\ [](\A p, q \in LocalPaths :
          (~p.abs /\ ~q.abs)
            => Resolve(Resolve(heap[1].cwd, p), q) =
                 Resolve(heap[1].cwd,
                         [abs |-> FALSE, segs |-> p.segs \o q.segs]))

\* After `cd sub` a command runs in /home/sub, not in the directory the
\* process started in.
C21_Witness ==
  /\ run.pc = "running"
  /\ run.command = CmdPwd
  /\ run.options.cwd = <<"home", "sub">>
  /\ run.options.cwd # StartDir
  /\ heap[1].cwd = run.options.cwd

ValidBearer(header) ==
  header.scheme = "Bearer" /\ header.token.sig = "good"
  /\ now < header.token.exp

\* C24 (HttpSpec): a history search or statistics request is served exactly
\* when it carries a valid bearer token; every other request gets a 401 and
\* causes no query of the History Store.
C24_HistoryServedIffValidBearer ==
  (sent.kind = "http" /\ sent.route \in {"/api/history", "/api/history/stats"})
    => /\ sent.status = 200 <=> ValidBearer(sent.request.header)
       /\ sent.status # 200 => (sent.status = 401 /\ ~sent.queried)

\* C25 (HttpSpec): POST /auth/token answers with a token exactly when the
\* apiKey is there and is at least 32 characters long, and with 401 and no
\* token otherwise; an issued token carries execute, history and ai and
\* expires 24 hours after issue.
C25_TokenIffLongCredential ==
  (sent.kind = "http" /\ sent.route = "/auth/token")
    => /\ sent.status = 200 <=>
            (sent.request.type = "string"
             /\ sent.request.length >= MinKeyLength)
       /\ sent.status = 200 =>
            /\ sent.body.token.permissions = {"execute", "history", "ai"}
            /\ sent.body.token.exp = now + ExpiresIn
       /\ sent.status # 200 =>
            (sent.status = 401 /\ "token" \notin DOMAIN sent.body)

\* The rows, most recent first, whose command contains the keyword.
RowsContaining(rows, keyword) ==
  Reverse(SelectSeq(rows, LAMBDA row : Contains(row.command, keyword)))

\* C26 (CliSpec): a history search with a keyword lists exactly the stored
\* rows whose command contains the keyword as a substring, most recent
\* first, cut to the limit.
C26_KeywordIsSubstring ==
  (sent.kind = "cli" /\ sent.command = "history" /\ ~sent.options.failed
   /\ sent.options.keyword # << >>)
    => LET all == RowsContaining(history, sent.options.keyword)
       IN sent.listed =
            SubSeq(all, 1, IF sent.options.limit < Len(all)
                           THEN sent.options.limit ELSE Len(all))

\* C29 (CliSpec): `history --failed` lists exactly the stored rows whose
\* exit code is not 0, most recent first, cut to the limit.
C29_FailedListsAllNonZero ==
  (sent.kind = "cli" /\ sent.command = "history" /\ sent.options.failed
   /\ sent.options.keyword = << >>)
    => LET all == Reverse(SelectSeq(history,
                                    LAMBDA row : row.exitCode # 0))
       IN sent.listed =
            SubSeq(all, 1, IF sent.options.limit < Len(all)
                           THEN sent.options.limit ELSE Len(all))

\* C30 (CliSpec): without a subcommand, `--api --port n` (with or without
\* `--host h`) starts the API server on port n, and `--api` alone starts it
\* on port 3001.
C30_ApiFlagStartsServer ==
  (sent.kind = "cli" /\ sent.command = "main"
   /\ sent.argv \in {<<"--api">>, <<"--api", "--port", "8080">>,
                     <<"--api", "--port", "8080", "--host", "0.0.0.0">>})
    => /\ sent.started.what = "api"
       /\ sent.started.port = IF Len(sent.argv) = 1 THEN DefaultPort ELSE 8080

\* C27: processRequest never rejects: whatever the request type, when the
\* model call or the reading of its response fails the caller gets a chat
\* response whose content is the error message, and otherwise a response of
\* the type that belongs to the request.
C27_AssistantNeverRejects ==
  sent.kind = "ai" =>
    /\ sent.response.type \in {"command", "suggestion", "explanation", "chat"}
    /\ sent.outcome # "text" =>
         /\ sent.response.type = "chat"
         /\ Len(sent.response.content) = 2
         /\ sent.response.content[1] = "Error: "
    /\ sent.outcome = "text" =>
         sent.response.type = typeMap(sent.answers.type)

\* An error-analysis request whose model call failed was answered with the
\* error text.
C27_Witness ==
  /\ sent.kind = "ai"
  /\ sent.answers.type = "error-analysis"
  /\ sent.outcome = "api error"
  /\ sent.response = [type |-> "chat",
                      content |-> <<"Error: ", "Connection error.">>]

\* C28: the permission check for a required permission passes exactly when
\* the connection's permission set holds it or holds *: an execute or ai
\* action of a live connection is answered 'Permission denied' exactly when
\* the set holds neither the action's permission nor *, and a set holding *
\* is denied no action.
Denied(c) == sent' = [socket |-> c, kind |-> "error",
                      error |-> "Permission denied"]

C28_PermissionCheck ==
  [][\A c \in Sockets :
       (socket[c].state = "connected" /\ Live(c) /\ received' # received)
         => /\ \A command \in RemoteCommands :
                 ExecuteHandler(c, command)
                   => (Denied(c)
                         <=> /\ "execute" \notin socket[c].permissions
                             /\ "*" \notin socket[c].permissions)
            /\ \A request \in AIRequests :
                 AiHandler(c, request)
                   => (Denied(c)
                         <=> /\ "ai" \notin socket[c].permissions
                             /\ "*" \notin socket[c].permissions)
            /\ "*" \in socket[c].permissions => ~ Denied(c)]_vars

\* A connection whose permission set is {*} has had an ai request answered
\* by the Assistant.
C28_Witness ==
  /\ sent.kind = "ai"
  /\ socket[sent.socket].permissions = {"*"}
  /\ sent.outcome = "text"

\* C31: a session created after another session has changed its directory
\* or set environment variables starts with the working directory and the
\* environment the server process had at startup.
C31_NewSessionStartsFresh ==
  [][\A c \in Sockets :
       (~Live(c) /\ Live(c)')
         => ExecutorOf(c)' = [cwd |-> StartDir, env |-> StartEnv]]_vars

\* C32 (ReplSpec): a line-oriented front end never has two execute calls
\* running against its Executor at the same time.
C32_ReplOneInFlight ==
  Cardinality({h \in repl.handlers : h.pc = "running"}) <= 1

\* C33 (ReplSpec): in EnhancedREPL every external command whose subprocess
\* has completed has its result added to the History Store: no handler gets
\* past the completion of its command without the row being written or
\* about to be written.
C33_CompletedCommandIsArchived ==
  repl.kind = "enhanced" =>
    \A h \in repl.handlers :
      \/ h.pc \in {"running", "saving"}
      \/ \E i \in 1..Len(history) : history[i].line = h.id

\* C34: a disconnect terminates no subprocess of the connection: the
\* execute handlers in flight stay as they are, each of them goes on to the
\* close of its child and to the write of its result, the write appends
\* that result once and ends the handler, and no more rows are written than
\* handlers have ended.
C34_DisconnectKeepsCommand ==
  /\ [](Len(history) + Cardinality(calls) <= spawned)
  /\ [][\A c \in Sockets :
          (socket[c].state = "connected" /\ socket'[c].state = "disconnected")
            => /\ calls' = calls
               /\ history' = history]_vars
  /\ [][\A call \in calls :
          (socket[call.socket].state = "disconnected" /\ call \notin calls')
            => IF call.pc = "saving"
               THEN /\ \A other \in calls' : other.pid # call.pid
                    /\ \/ history' = Append(history, call.result)
                       \/ AddEntryFail(call)
               ELSE /\ history' = history
                    /\ \E next \in calls' :
                         /\ next.pid = call.pid
                         /\ next.pc = "saving"
                         /\ next.result.command = call.argv]_vars

\* The only command ever started was in flight when its connection
\* disconnected, and its result is the one row of the History Store.
C34_Witness ==
  /\ spawned = 1 /\ calls = {} /\ Len(history) = 1
  /\ sent.kind = "result"
  /\ socket[sent.socket].state = "disconnected"
  /\ history[1] = sent.response.result

\* C37 (LateSpec): an execute, cd or env action handled when the registry
\* holds no entry for its connection is answered 'Session not found',
\* starts no child, writes no history row, and leaves the registry, every
\* Executor and the working directory and environment of the process
\* unchanged.
NotFound(c) ==
  /\ sent'.kind = "error"
  /\ sent'.socket = c
  /\ sent'.error = "Session not found"
  /\ UNCHANGED <<spawned, calls, history, heap, procCwd, procEnv,
                 activeSessions, socket>>

C37_SessionNotFound ==
  [][\A c \in Sockets :
       (~Live(c) /\ received' # received)
         => /\ \A command \in RemoteCommands :
                 ExecuteListener(c, command) => NotFound(c)
            /\ \A path \in PathInputs : CdListener(c, path) => NotFound(c)
            /\ EnvListener(c) => NotFound(c)]_vars

\* A late message of a departed connection has been answered 'Session not
\* found' while another connection has its session.
C37_Witness ==
  /\ sent.kind = "error"
  /\ sent.error = "Session not found"
  /\ socket[sent.socket].state = "disconnected"
  /\ \E d \in Sockets : d # sent.socket /\ Live(d)

\* C35 (FairSpec): sessions do not block one another.  While the command of
\* one session never exits, every execute action whose own child exits or
\* fails to start is eventually answered, and every cd and env action is answered in the step
\* that handles it.
C35_SessionsDoNotBlock ==
  /\ \A pid \in 1..MaxSpawn :
       (\E call \in calls :
          call.pid = pid /\ (call.argv # CmdHang \/ call.pc # "running"))
         ~> (~\E call \in calls : call.pid = pid)
  /\ [][\A c \in Sockets :
          /\ \A path \in PathInputs :
               CdHandler(c, path)
                 => sent'.socket = c /\ sent'.kind \in {"cd", "error"}
          /\ EnvHandler(c) => sent'.socket = c /\ sent'.kind = "env"]_vars

\* The result of a later command of another connection is delivered while
\* the command that never exits is still running.
C35_Witness ==
  /\ sent.kind = "result"
  /\ \E call \in calls :
       /\ call.argv = CmdHang /\ call.pc = "running"
       /\ call.socket # sent.socket
       /\ call.pid < sent.pid

\* C36 (StatsSpec): the counts getStatistics returns fit one snapshot of
\* the store: the total is the sum of the successful and the failed
\* commands, the successful ones are no more than the total, and the failed
\* ones are not negative.
C36_StatisticsAreOneSnapshot ==
  sent.kind = "stats" =>
    /\ sent.totalCommands = sent.successfulCommands + sent.failedCommands
    /\ sent.successfulCommands <= sent.totalCommands
    /\ sent.failedCommands >= 0

\* C38 (TuiSpec): the TUI processes at most one command or AI request at a
\* time.  isProcessing is true exactly while a handler is in flight, so it
\* is false again after every handler has finished, also when it threw; and
\* an Enter key pressed while isProcessing is true starts no handler and
\* adds nothing to the command history.
C38_OneAtATime ==
  /\ [](~tui.exited =>
          /\ Cardinality(tui.handlers) <= 1
          /\ tui.isProcessing <=> tui.handlers # {})
  /\ [][\A input \in TuiInputs, aiMode \in BOOLEAN :
          (tui.isProcessing /\ Enter(input, aiMode))
            => /\ tui'.handlers = tui.handlers
               /\ tui'.commandHistory = tui.commandHistory
               /\ tui'.output = AlreadyProcessing
               /\ history' = history]_vars

\* A first handler has finished without storing a result (an error left it,
\* or it was an AI request), a second one is in flight, and an Enter key
\* pressed meanwhile has been refused.
C38_Witness ==
  /\ tui.commandHistory = 2
  /\ history = << >>
  /\ Cardinality(tui.handlers) = 1
  /\ tui.isProcessing
  /\ tui.output = AlreadyProcessing

\* C39: a Shellington started by a command that Shellington runs finds
\* SHELLINGTON_ACTIVE equal to 'true' in its environment, so its start
\* prints the warning and exits with status 1.
C39_NestedStartIsRefused ==
  \A call \in calls :
    /\ call.options.env[ActiveKey] = "true"
    /\ call.argv = CmdShellington
         => /\ Startup(call.options.env).exited
            /\ Startup(call.options.env).code = 1

====
